---- MODULE Spec2Model ----
(***************************************************************************)
(* Model of the installment engine of myHelperBuddy:                       *)
(*   accounts/views/view_financial_instrument.py  (FinancialProduct and    *)
(*       its installment Transactions: create, recalculate, close)         *)
(*   accounts/views/view_transaction.py           (per-transaction edit,   *)
(*       status toggle, soft delete, restore)                              *)
(*   accounts/services/ledger_utils.py            (ledger installments)    *)
(* Dates are integers YYYYMMDD, amounts are integer cents.                 *)
(* The model follows one financial product (one id) and its rows of the    *)
(* Transaction table.  The views read the rows with an unordered queryset; *)
(* the rows are taken in primary-key order, the order SQLite returns them  *)
(* in.  No view runs in a database transaction (settings.py sets no        *)
(* ATOMIC_REQUESTS, the views use no transaction.atomic), so every save()  *)
(* and delete() done before an exception stays in the tables.              *)
(***************************************************************************)
EXTENDS Integers, Sequences, FiniteSets, TLC

(***************************************************************************)
(* Bounds of the model                                                     *)
(***************************************************************************)
MaxInstallments == 3
MaxSteps == 4
MaxDeleted == 1
MaxLedgerPlans == 1
MaxSeries == 1
MaxScored == 2
MaxRequests == 4

\* Inputs the requests are drawn from.
Names == {"car"}
Types == {"Loan", "SIP"}
Categories == {"Personal"}
StartDates == {20231115, 20240131}
CreateAmounts == {10, 12}
UpdateAmounts == {400, 1500}
NotPosted == -2
EditDates == {NotPosted, 20240101}
EditAmounts == {NotPosted, 700}
Counts == 0..MaxInstallments
Frequencies == {"MONTHLY", "WEEKLY", "CUSTOM"}
NoneDays == -1
CustomDays == {NoneDays, 10}
LedgerAmounts == {900, 1000}
LedgerTypes == {"RECEIVABLE", "PAYABLE"}
LedgerCounts == 2..MaxInstallments

(***************************************************************************)
(* Calendar (datetime.date)                                                *)
(***************************************************************************)
Year(dt) == dt \div 10000
Month(dt) == (dt \div 100) % 100
Day(dt) == dt % 100
MkDate(y, m, d) == y * 10000 + m * 100 + d

IsLeap(y) == (y % 4 = 0) /\ ((y % 100 # 0) \/ (y % 400 = 0))

DaysInMonth(y, m) ==
    IF m = 2 THEN (IF IsLeap(y) THEN 29 ELSE 28)
    ELSE IF m \in {4, 6, 9, 11} THEN 30 ELSE 31

\* datetime.datetime(y, m, d) raises ValueError unless the day exists.
ValidDate(y, m, d) == m \in 1..12 /\ d >= 1 /\ d <= DaysInMonth(y, m)

DaysBeforeYear(y) ==
    (y - 1) * 365 + ((y - 1) \div 4) - ((y - 1) \div 100) + ((y - 1) \div 400)

RECURSIVE DaysBeforeMonth(_, _)
DaysBeforeMonth(y, m) ==
    IF m = 1 THEN 0 ELSE DaysBeforeMonth(y, m - 1) + DaysInMonth(y, m - 1)

\* date.toordinal()
ToOrdinal(dt) ==
    DaysBeforeYear(Year(dt)) + DaysBeforeMonth(Year(dt), Month(dt)) + Day(dt)

\* date.fromordinal(n)
FromOrdinal(n) ==
    LET y == CHOOSE yy \in 2020..2030 :
                 DaysBeforeYear(yy) < n /\ n <= DaysBeforeYear(yy + 1)
        r == n - DaysBeforeYear(y)
        m == CHOOSE mm \in 1..12 :
                 DaysBeforeMonth(y, mm) < r
                 /\ r <= DaysBeforeMonth(y, mm) + DaysInMonth(y, mm)
    IN  MkDate(y, m, r - DaysBeforeMonth(y, m))

\* date + timedelta(days=k)
AddDays(dt, k) == FromOrdinal(ToOrdinal(dt) + k)

\* Result of a date computation that raised ValueError.
DateError == 0

(***************************************************************************)
(* desired_date: N months after start_date, same day of month.             *)
(***************************************************************************)
desired_date(start_date, months_offset) ==
    LET current_month == Month(start_date)
        current_year == Year(start_date)
        current_day == Day(start_date)
        m0 == current_month + months_offset
        desired_year == current_year + ((m0 - 1) \div 12)
        desired_month == ((m0 - 1) % 12) + 1
    IN  IF ValidDate(desired_year, desired_month, current_day)
        THEN MkDate(desired_year, desired_month, current_day)
        ELSE DateError

(***************************************************************************)
(* calculate_due_date: due date of installment installment_index.          *)
(***************************************************************************)
calculate_due_date(start_date, installment_index, frequency, custom_days) ==
    IF frequency = "MONTHLY" THEN AddDays(start_date, 30 * installment_index)
    ELSE IF frequency = "WEEKLY" THEN AddDays(start_date, 7 * installment_index)
    ELSE IF frequency = "CUSTOM" THEN
        (IF custom_days = NoneDays THEN DateError
         ELSE AddDays(start_date, custom_days * installment_index))
    ELSE DateError

(***************************************************************************)
(* round(x / n, 2) in cents: Decimal quantize, ROUND_HALF_EVEN.  The float *)
(* division of create_finance agrees with it when n < 8 (no exact ties).   *)
(***************************************************************************)
RoundDiv(a, n) ==
    LET q == a \div n
        r == a % n
    IN  IF 2 * r < n THEN q
        ELSE IF 2 * r > n THEN q + 1
        ELSE IF q % 2 = 0 THEN q ELSE q + 1

(***************************************************************************)
(* State                                                                   *)
(***************************************************************************)
VARIABLES
    product,        \* the FinancialProduct row (exists = FALSE before creation)
    transactions,   \* its Transaction rows, in primary-key order
    ledger,         \* LedgerTransaction rows, in primary-key order
    last,           \* the last request served and how it ended
    served,         \* number of requests served so far
    payments,       \* PaymentRecord rows, in primary-key order
    calls,          \* record_payment calls between their read and their write
    tasks,          \* Task rows (each with its RecurringPattern), in primary-key order
    reminder,       \* the Reminder row under evaluation
    today,          \* the server's current date
    cache,          \* the cache entry of one rate-limit key (one path, one IP)
    clock,          \* time.time(), in seconds
    requests,       \* check_rate_limit calls between cache.get and cache.set
    responses       \* the requests answered so far

\* The tables no request on the financial product touches.
limiter == <<cache, clock, requests, responses>>
other_tables == <<payments, calls, tasks, reminder, today, limiter>>

vars == <<product, transactions, ledger, last, served, other_tables>>

\* Two requests can be in flight on the server at once.
Handlers == {1, 2}
Idle == [pc |-> "idle"]
NoReminder == [reminder_type |-> "none"]
\* cache.get finds nothing under the key.
NoEntry == [count |-> 0, reset_time |-> 0, expires |-> 0]
\* No request has reached the rate limiter.
NoTraffic ==
    /\ cache = NoEntry
    /\ clock = 0
    /\ requests = [h \in Handlers |-> Idle]
    /\ responses = <<>>
Today == 20240101

NoProduct ==
    [exists |-> FALSE, name |-> "", type |-> "", amount |-> 0,
     no_of_installments |-> 0, started_on |-> 0, status |-> "Open",
     is_deleted |-> FALSE]

Init ==
    /\ product = NoProduct
    /\ transactions = <<>>
    /\ ledger = <<>>
    /\ last = [op |-> "none", outcome |-> "none"]
    /\ served = 0
    /\ payments = <<>>
    /\ calls = [h \in Handlers |-> Idle]
    /\ NoTraffic
    /\ tasks = <<>>
    /\ reminder = NoReminder
    /\ today = Today

\* The model serves at most MaxSteps requests.
Budget == served < MaxSteps /\ served' = served + 1

(***************************************************************************)
(* Helpers over the installment rows                                       *)
(***************************************************************************)
\* Transaction.objects.filter(source_id=id, is_deleted=False): the live rows.
LiveIdx(txs) == {i \in 1..Len(txs) : ~txs[i].is_deleted}
\* 1-based position of row i in the filtered queryset.
Rank(txs, i) == Cardinality({j \in 1..i : ~txs[j].is_deleted})
NLive(txs) == Cardinality(LiveIdx(txs))
CompletedIdx(txs) == {i \in LiveIdx(txs) : txs[i].status = "Completed"}
PendingIdx(txs) == {i \in LiveIdx(txs) : txs[i].status = "Pending"}

RECURSIVE SumAmount(_, _)
SumAmount(txs, S) ==
    IF S = {} THEN 0
    ELSE LET i == CHOOSE x \in S : TRUE
         IN  txs[i].amount + SumAmount(txs, S \ {i})

\* f'{name} {sub_label} {index}'
Description(name, sub_label, index) == <<name, sub_label, index>>
SubLabel(i_type) == IF i_type = "Loan" THEN "EMI" ELSE i_type
CategoryFor(i_type, category) ==
    IF i_type = "Loan" THEN "EMI"
    ELSE IF i_type = "Split" THEN category
    ELSE "Investment"

\* Smallest offset in lo..hi for which desired_date raises, hi + 1 if none.
FirstBadOffset(start, lo, hi) ==
    LET bad == {k \in lo..hi : desired_date(start, k) = DateError}
    IN  IF bad = {} THEN hi + 1 ELSE CHOOSE k \in bad : \A j \in bad : k <= j

(***************************************************************************)
(* create_finance                                                          *)
(***************************************************************************)
create_finance(name, product_type, category, amount, no_of_installments, started_on) ==
    /\ ~product.exists
    /\ IF no_of_installments < 1
       THEN /\ UNCHANGED <<product, transactions>>
            /\ last' = [op |-> "create_finance", outcome |-> "InvalidInstallmentCount"]
       ELSE LET emi_amount == RoundDiv(amount * 100, no_of_installments)
                cat == CategoryFor(product_type, category)
                sub_label == SubLabel(product_type)
                stop == FirstBadOffset(started_on, 0, no_of_installments - 1)
            IN  /\ product' = [exists |-> TRUE, name |-> name, type |-> product_type,
                               amount |-> amount * 100,
                               no_of_installments |-> no_of_installments,
                               started_on |-> started_on, status |-> "Open",
                               is_deleted |-> FALSE]
                /\ transactions' =
                       [i \in 1..stop |->
                           [date |-> desired_date(started_on, i - 1),
                            amount |-> emi_amount,
                            status |-> "Pending",
                            is_deleted |-> FALSE,
                            description |-> Description(name, sub_label, i),
                            category |-> cat,
                            mode_detail |-> product_type]]
                /\ last' = [op |-> "create_finance",
                            outcome |-> IF stop = no_of_installments
                                        THEN "ok" ELSE "ValueError"]
    /\ UNCHANGED <<ledger, other_tables>>

CreateFinance ==
    /\ Budget
    /\ \E name \in Names, product_type \in Types, category \in Categories,
       amount \in CreateAmounts, n \in Counts, started_on \in StartDates :
        create_finance(name, product_type, category, amount, n, started_on)

(***************************************************************************)
(* update_finance_detail (POST)                                            *)
(***************************************************************************)
\* trn.delete() for every row of the queryset at position > keep.
RECURSIVE DeleteAfter(_, _)
DeleteAfter(txs, keep) ==
    IF txs = <<>> THEN <<>>
    ELSE LET k == Len(txs)
             head == DeleteAfter(SubSeq(txs, 1, k - 1), keep)
         IN  IF ~txs[k].is_deleted /\ Rank(txs, k) > keep
             THEN head ELSE Append(head, txs[k])

\* transactions.last(): the live row with the greatest primary key, 0 if none.
LastLive(txs) ==
    IF LiveIdx(txs) = {} THEN 0
    ELSE CHOOSE i \in LiveIdx(txs) : \A j \in LiveIdx(txs) : j <= i

\* "Update Name" (lines 301-304): every row of the queryset is renumbered.
RenameRows(txs, name, sub_label) ==
    [i \in 1..Len(txs) |->
        IF txs[i].is_deleted THEN txs[i]
        ELSE [txs[i] EXCEPT
                 !.description = Description(name, sub_label, Rank(txs, i))]]

\* "Update Type" (lines 310-326)
RetypeRows(txs, old_type, i_type, category) ==
    IF i_type # old_type
    THEN [i \in 1..Len(txs) |->
             IF txs[i].is_deleted THEN txs[i]
             ELSE [txs[i] EXCEPT
                      !.category = CategoryFor(i_type, category),
                      !.mode_detail = i_type]]
    ELSE txs

\* "Update Start Date", the loop of lines 350-354 run up to offset stop - 1.
RedateRows(txs, started_on, paid, stop) ==
    [i \in 1..Len(txs) |->
        IF /\ ~txs[i].is_deleted
           /\ Rank(txs, i) - 1 >= paid
           /\ Rank(txs, i) - 1 - paid < stop
        THEN [txs[i] EXCEPT
                 !.date = desired_date(started_on, Rank(txs, i) - 1 - paid)]
        ELSE txs[i]]

\* trn.amount = emi_amount for the rows at positions 1..upto that are not
\* Completed.
SetPendingAmount(txs, emi_amount, upto) ==
    [i \in 1..Len(txs) |->
        IF /\ ~txs[i].is_deleted
           /\ Rank(txs, i) <= upto
           /\ txs[i].status # "Completed"
        THEN [txs[i] EXCEPT !.amount = emi_amount]
        ELSE txs[i]]

\* trn.amount = emi_amount for every row at positions 1..upto (the
\* all-pending branch).
SetAllAmount(txs, emi_amount, upto) ==
    [i \in 1..Len(txs) |->
        IF ~txs[i].is_deleted /\ Rank(txs, i) <= upto
        THEN [txs[i] EXCEPT !.amount = emi_amount]
        ELSE txs[i]]

\* The rows created by lines 408-421 / 455-468.
NewRows(last_trn, previous, count, emi_amount, name, sub_label, i_type) ==
    [j \in 1..count |->
        [date |-> desired_date(last_trn.date, 1),
         amount |-> emi_amount,
         status |-> "Pending",
         is_deleted |-> FALSE,
         description |-> Description(name, sub_label, previous + j),
         category |-> last_trn.category,
         mode_detail |-> i_type]]

\* "Add new installments": amounts first, then the appended rows.
AddInstallments(txs, amounted, previous, n, emi_amount, name, sub_label, i_type) ==
    LET li == LastLive(amounted)
    IN  IF li = 0
        THEN [outcome |-> "ServerError", txs |-> amounted]
        ELSE IF desired_date(amounted[li].date, 1) = DateError
        THEN [outcome |-> "InvalidDate", txs |-> amounted]
        ELSE [outcome |-> "ok",
              txs |-> amounted \o NewRows(amounted[li], previous, n - previous,
                                          emi_amount, name, sub_label, i_type)]

\* "Update Amount or Installments" (lines 360-483)
Recalculate(det, txs, name, sub_label, i_type, amount, n) ==
    LET previous == det.no_of_installments
        completed_count == Cardinality(CompletedIdx(txs))
        paid_amount == SumAmount(txs, CompletedIdx(txs))
    IN  IF amount = det.amount /\ n = det.no_of_installments
        THEN [outcome |-> "ok", txs |-> txs]
        ELSE IF completed_count > 0
        THEN IF amount < paid_amount
             THEN [outcome |-> "AmountBelowPaid", txs |-> txs]
             ELSE IF n < completed_count
             THEN [outcome |-> "CountBelowCompleted", txs |-> txs]
             ELSE IF amount > paid_amount /\ n = completed_count
             THEN [outcome |-> "CountNotAboveCompleted", txs |-> txs]
             ELSE LET remaining_installments == n - completed_count
                      emi_amount == IF remaining_installments # 0
                                    THEN RoundDiv(amount - paid_amount,
                                                  remaining_installments)
                                    ELSE 0
                  IN  IF n > previous
                      THEN AddInstallments(txs,
                               SetPendingAmount(txs, emi_amount, Len(txs)),
                               previous, n, emi_amount, name, sub_label, i_type)
                      ELSE IF n < previous
                      THEN [outcome |-> "ok",
                            txs |-> DeleteAfter(
                                        SetPendingAmount(txs, emi_amount, n), n)]
                      ELSE [outcome |-> "ok",
                            txs |-> SetPendingAmount(txs, emi_amount, Len(txs))]
        ELSE LET emi_amount == RoundDiv(amount, n)
             IN  IF n > previous
                 THEN AddInstallments(txs,
                          SetAllAmount(txs, emi_amount, Len(txs)),
                          previous, n, emi_amount, name, sub_label, i_type)
                 ELSE IF n < previous
                 THEN [outcome |-> "ok",
                       txs |-> DeleteAfter(SetAllAmount(txs, emi_amount, n), n)]
                 ELSE [outcome |-> "ok",
                       txs |-> SetAllAmount(txs, emi_amount, Len(txs))]

\* The whole POST handler: what the tables hold when it returns.
UpdateResult(det, txs, name, i_type, category, started_on, amount, n) ==
    IF n < 1
    THEN [outcome |-> "InvalidInstallmentCount", det |-> det, txs |-> txs]
    ELSE
    LET sub_label == SubLabel(i_type)
        renamed == RetypeRows(RenameRows(txs, name, sub_label),
                              det.type, i_type, category)
        paid == Cardinality(CompletedIdx(renamed))
        pending_rows == NLive(renamed) - paid
        stop == FirstBadOffset(started_on, 0, pending_rows - 1)
        redate == started_on # det.started_on
        conflict == \E i \in CompletedIdx(renamed) : renamed[i].date >= started_on
        redated == IF redate THEN RedateRows(renamed, started_on, paid, stop)
                   ELSE renamed
        rec == Recalculate(det, redated, name, sub_label, i_type, amount, n)
    IN  IF redate /\ conflict
        THEN [outcome |-> "StartDateConflict", det |-> det, txs |-> renamed]
        ELSE IF redate /\ stop < pending_rows
        THEN [outcome |-> "InvalidDate", det |-> det, txs |-> redated]
        ELSE IF rec.outcome # "ok"
        THEN [outcome |-> rec.outcome, det |-> det, txs |-> rec.txs]
        ELSE [outcome |-> "ok",
              det |-> [det EXCEPT
                         !.name = name,
                         !.type = i_type,
                         !.started_on = IF redate /\ paid = 0
                                        THEN started_on ELSE @,
                         !.amount = amount,
                         !.no_of_installments = n],
              txs |-> rec.txs]

update_finance_detail(name, i_type, category, started_on, amount, n) ==
    /\ product.exists
    /\ LET r == UpdateResult(product, transactions, name, i_type, category,
                             started_on, amount, n)
       IN  /\ product' = r.det
           /\ transactions' = r.txs
           /\ last' = [op |-> "update_finance_detail", outcome |-> r.outcome]
    /\ UNCHANGED <<ledger, other_tables>>

UpdateFinanceDetail ==
    /\ Budget
    /\ \E name \in Names, i_type \in Types, category \in Categories,
       started_on \in StartDates, amount \in UpdateAmounts, n \in Counts :
        update_finance_detail(name, i_type, category, started_on, amount, n)

(***************************************************************************)
(* view_transaction.py: requests on one installment row (row i of the      *)
(* table; the views look the row up by id and do not filter on is_deleted) *)
(***************************************************************************)
update_transaction(i, date, amount) ==
    /\ i \in 1..Len(transactions)
    /\ transactions' =
           [transactions EXCEPT
               ![i].date = IF date = NotPosted THEN @ ELSE date,
               ![i].amount = IF amount = NotPosted THEN @ ELSE amount]
    /\ last' = [op |-> "update_transaction", outcome |-> "ok"]
    /\ UNCHANGED <<product, ledger, other_tables>>

UpdateTransaction ==
    /\ Budget
    /\ \E i \in 1..Len(transactions), date \in EditDates, amount \in EditAmounts :
        update_transaction(i, date, amount)

update_transaction_status(i) ==
    /\ i \in 1..Len(transactions)
    /\ transactions' =
           [transactions EXCEPT
               ![i].status = IF @ = "Pending" THEN "Completed" ELSE "Pending"]
    /\ last' = [op |-> "update_transaction_status", outcome |-> "ok"]
    /\ UNCHANGED <<product, ledger, other_tables>>

UpdateTransactionStatus ==
    /\ Budget
    /\ \E i \in 1..Len(transactions) : update_transaction_status(i)

delete_transaction(i) ==
    /\ i \in 1..Len(transactions)
    /\ ~transactions[i].is_deleted
    /\ Len(transactions) - NLive(transactions) < MaxDeleted
    /\ transactions' = [transactions EXCEPT ![i].is_deleted = TRUE]
    /\ last' = [op |-> "delete_transaction", outcome |-> "ok"]
    /\ UNCHANGED <<product, ledger, other_tables>>

DeleteTransaction ==
    /\ Budget
    /\ \E i \in 1..Len(transactions) : delete_transaction(i)

undo_transaction(i) ==
    /\ i \in 1..Len(transactions)
    /\ product' = [product EXCEPT !.is_deleted = FALSE]
    /\ transactions' = [transactions EXCEPT ![i].is_deleted = FALSE]
    /\ last' = [op |-> "undo_transaction", outcome |-> "ok"]
    /\ UNCHANGED <<ledger, other_tables>>

UndoTransaction ==
    /\ Budget
    /\ \E i \in 1..Len(transactions) : undo_transaction(i)

(***************************************************************************)
(* update_instrument_status, remove_instrument                             *)
(***************************************************************************)
update_instrument_status ==
    /\ product.exists
    /\ IF PendingIdx(transactions) # {}
       THEN /\ UNCHANGED product
            /\ last' = [op |-> "update_instrument_status",
                        outcome |-> "PendingInstallments"]
       ELSE /\ product' = [product EXCEPT
                              !.status = IF @ = "Open" THEN "Closed" ELSE "Open"]
            /\ last' = [op |-> "update_instrument_status", outcome |-> "ok"]
    /\ UNCHANGED <<transactions, ledger, other_tables>>

remove_instrument ==
    /\ product.exists
    /\ IF LiveIdx(transactions) # {}
       THEN /\ UNCHANGED product
            /\ last' = [op |-> "remove_instrument", outcome |-> "HasInstallments"]
       ELSE IF product.is_deleted
       THEN /\ UNCHANGED product
            /\ last' = [op |-> "remove_instrument", outcome |-> "ServerError"]
       ELSE /\ product' = [product EXCEPT !.is_deleted = TRUE]
            /\ last' = [op |-> "remove_instrument", outcome |-> "ok"]
    /\ UNCHANGED <<transactions, ledger, other_tables>>

UpdateInstrumentStatus == Budget /\ update_instrument_status

RemoveInstrument == Budget /\ remove_instrument

(***************************************************************************)
(* ledger_utils.create_installment_transactions                            *)
(***************************************************************************)
\* A row as LedgerTransaction.objects.create stores it when the caller passes
\* neither status nor paid_amount: PENDING, nothing paid, all of it remaining.
LedgerRow(parent, number, total, amount, start_date, due_date, transaction_type) ==
    [parent_transaction |-> parent, installment_number |-> number,
     total_installments |-> total, amount |-> amount,
     transaction_date |-> start_date, due_date |-> due_date,
     transaction_type |-> transaction_type,
     status |-> "PENDING", paid_amount |-> 0, remaining_amount |-> amount,
     is_deleted |-> FALSE]

\* Index of the first installment whose due date cannot be computed.
FirstBadInstallment(start_date, n, frequency, custom_days) ==
    LET bad == {k \in 0..(n - 1) :
                   calculate_due_date(start_date, k, frequency, custom_days) = DateError}
    IN  IF bad = {} THEN n ELSE CHOOSE k \in bad : \A j \in bad : k <= j

create_installment_transactions(base_amount, num_installments, frequency, start_date, custom_days, transaction_type) ==
    /\ Len(SelectSeq(ledger, LAMBDA r : r.parent_transaction = 0)) < MaxLedgerPlans
    /\ LET installment_amount == RoundDiv(base_amount, num_installments)
           parent == Len(ledger) + 1
           made == FirstBadInstallment(start_date, num_installments,
                                       frequency, custom_days)
       IN  /\ ledger' =
                  Append(ledger,
                         LedgerRow(0, 0, num_installments, base_amount,
                                   start_date, 0, transaction_type))
                  \o [k \in 1..made |->
                         LedgerRow(parent, k, num_installments, installment_amount,
                                   start_date,
                                   calculate_due_date(start_date, k - 1,
                                                      frequency, custom_days),
                                   transaction_type)]
           /\ last' = [op |-> "create_installment_transactions",
                       outcome |-> IF made = num_installments
                                   THEN "ok" ELSE "ValueError"]
    /\ UNCHANGED <<product, transactions, other_tables>>

CreateInstallmentTransactions ==
    /\ Budget
    /\ \E base_amount \in LedgerAmounts, n \in LedgerCounts, frequency \in Frequencies,
       start_date \in StartDates, custom_days \in CustomDays,
       transaction_type \in LedgerTypes :
        create_installment_transactions(base_amount, n, frequency, start_date,
                                        custom_days, transaction_type)

(***************************************************************************)
(* Ledger obligations and their payments                                   *)
(***************************************************************************)
AllLedgerTypes == {"RECEIVABLE", "PAYABLE", "RECEIVED", "PAID"}
PaymentAmounts == {0, 400, 600}
LedgerEditAmounts == {300, 1000}
LedgerDates == {20240131}
LedgerDueDates == {20240215}

\* Obligations entered so far: the rows that are not installments of another.
NObligations == Len(SelectSeq(ledger, LAMBDA r : r.parent_transaction = 0))

\* Saving a LedgerTransaction stores the remaining amount that follows from
\* amount and paid_amount.
LedgerTransaction_save(row) ==
    [row EXCEPT !.remaining_amount = row.amount - row.paid_amount]

\* Saving a new PaymentRecord adds its amount to the obligation it belongs to
\* and settles the obligation's remaining amount and status.
PaymentRecord_save(row, amount_paid) ==
    LET paid == row.paid_amount + amount_paid
        remaining == row.amount - paid
    IN  [row EXCEPT !.paid_amount = paid,
                    !.remaining_amount = remaining,
                    !.status = IF remaining = 0 THEN "COMPLETED"
                               ELSE IF paid > 0 THEN "PARTIAL"
                               ELSE row.status]

\* With installments the parent row is stored, then the first child's create
\* receives due_date twice (its own and the one among common_fields) and
\* raises TypeError; nothing is rolled back.
add_ledger_transaction(transaction_type, amount, transaction_date, due_date, enable_installments, num_installments) ==
    /\ NObligations < MaxLedgerPlans
    /\ LET settled == transaction_type \in {"RECEIVED", "PAID"}
           split == enable_installments /\ num_installments > 1
           row == [LedgerRow(0, 0, IF split THEN num_installments ELSE 0, amount,
                             transaction_date, due_date, transaction_type)
                      EXCEPT !.status = IF settled THEN "COMPLETED" ELSE "PENDING",
                             !.paid_amount = IF settled THEN amount ELSE 0]
       IN  /\ ledger' = Append(ledger, LedgerTransaction_save(row))
           /\ last' = [op |-> "add_ledger_transaction",
                       outcome |-> IF split THEN "TypeError" ELSE "ok"]
    /\ UNCHANGED <<product, transactions, other_tables>>

AddLedgerTransaction ==
    /\ Budget
    /\ \E transaction_type \in AllLedgerTypes, amount \in LedgerAmounts,
          transaction_date \in LedgerDates, due_date \in LedgerDueDates,
          enable_installments \in BOOLEAN, n \in 1..MaxInstallments :
        add_ledger_transaction(transaction_type, amount, transaction_date, due_date,
                               enable_installments, n)

update_ledger_transaction(id, transaction_type, transaction_date, amount, due_date) ==
    /\ id \in 1..Len(ledger)
    /\ LET entry == [ledger[id] EXCEPT
                        !.transaction_type = transaction_type,
                        !.transaction_date = IF transaction_date = NotPosted
                                             THEN @ ELSE transaction_date,
                        !.amount = amount,
                        !.due_date = due_date]
       IN  ledger' = [ledger EXCEPT ![id] = LedgerTransaction_save(entry)]
    /\ last' = [op |-> "update_ledger_transaction", outcome |-> "ok"]
    /\ UNCHANGED <<product, transactions, other_tables>>

UpdateLedgerTransaction ==
    /\ Budget
    /\ \E id \in 1..Len(ledger), transaction_type \in LedgerTypes,
          transaction_date \in EditDates, amount \in LedgerEditAmounts,
          due_date \in LedgerDueDates :
        update_ledger_transaction(id, transaction_type, transaction_date, amount, due_date)

NewPayment(id, amount_paid) == [ledger_transaction |-> id, amount_paid |-> amount_paid]

\* record_payment without the comparison with the remaining amount.
record_payment_unchecked(id, amount_paid) ==
    /\ id \in 1..Len(ledger)
    /\ payments' = Append(payments, NewPayment(id, amount_paid))
    /\ ledger' = [ledger EXCEPT ![id] = PaymentRecord_save(@, amount_paid)]
    /\ last' = [op |-> "record_payment", outcome |-> "ok"]
    /\ UNCHANGED <<product, transactions, calls, tasks, reminder, today, limiter>>

\* record_payment storing the PaymentRecord twice.
record_payment_twice(id, amount_paid) ==
    /\ id \in 1..Len(ledger)
    /\ IF amount_paid > ledger[id].remaining_amount
       THEN /\ last' = [op |-> "record_payment", outcome |-> "ValueError"]
            /\ UNCHANGED <<ledger, payments>>
       ELSE /\ payments' = payments \o <<NewPayment(id, amount_paid),
                                          NewPayment(id, amount_paid)>>
            /\ ledger' = [ledger EXCEPT ![id] = PaymentRecord_save(@, amount_paid)]
            /\ last' = [op |-> "record_payment", outcome |-> "ok"]
    /\ UNCHANGED <<product, transactions, calls, tasks, reminder, today, limiter>>

\* ledger_utils.record_payment served from its first line to its last.
record_payment(id, amount_paid) ==
    /\ id \in 1..Len(ledger)
    /\ IF amount_paid > ledger[id].remaining_amount
       THEN /\ last' = [op |-> "record_payment", outcome |-> "ValueError"]
            /\ UNCHANGED <<ledger, payments>>
       ELSE /\ payments' = Append(payments, NewPayment(id, amount_paid))
            /\ ledger' = [ledger EXCEPT ![id] = PaymentRecord_save(@, amount_paid)]
            /\ last' = [op |-> "record_payment", outcome |-> "ok"]
    /\ UNCHANGED <<product, transactions, calls, tasks, reminder, today, limiter>>

RecordPayment ==
    /\ Budget
    /\ \E id \in 1..Len(ledger), amount_paid \in PaymentAmounts :
        record_payment(id, amount_paid)

(***************************************************************************)
(* record_payment as the server runs it: no transaction and no row lock    *)
(* surround it, so another request can run between its read and its write  *)
(***************************************************************************)
\* LedgerTransaction.objects.get and the comparison with remaining_amount.
record_payment_get(h, id, amount_paid) ==
    /\ calls[h].pc = "idle"
    /\ id \in 1..Len(ledger)
    /\ IF amount_paid > ledger[id].remaining_amount
       THEN /\ last' = [op |-> "record_payment", outcome |-> "ValueError"]
            /\ UNCHANGED calls
       ELSE /\ calls' = [calls EXCEPT ![h] =
                            [pc |-> "validated", id |-> id,
                             amount_paid |-> amount_paid, transaction |-> ledger[id]]]
            /\ last' = [op |-> "record_payment", outcome |-> "validated"]
    /\ UNCHANGED <<product, transactions, ledger, payments, tasks, reminder, today, limiter>>

RecordPaymentGet ==
    /\ Budget
    /\ \E h \in Handlers, id \in 1..Len(ledger), amount_paid \in PaymentAmounts :
        record_payment_get(h, id, amount_paid)

\* PaymentRecord.objects.create. Its save() updates the obligation either from
\* the instance this call read or from the row as it is stored now.
record_payment_create(h) ==
    /\ calls[h].pc = "validated"
    /\ LET id == calls[h].id
           amount_paid == calls[h].amount_paid
       IN  /\ payments' = Append(payments, NewPayment(id, amount_paid))
           /\ \E transaction \in {calls[h].transaction, ledger[id]} :
                  ledger' = [ledger EXCEPT
                                ![id] = PaymentRecord_save(transaction, amount_paid)]
    /\ calls' = [calls EXCEPT ![h] = Idle]
    /\ last' = [op |-> "record_payment", outcome |-> "ok"]
    /\ UNCHANGED <<product, transactions, served, tasks, reminder, today, limiter>>

RecordPaymentCreate == \E h \in Handlers : record_payment_create(h)

(***************************************************************************)
(* Recurring tasks                                                         *)
(***************************************************************************)
\* A date field that holds NULL, and a date computation that returned None.
NoDate == -3
\* RecurringPattern.max_occurrences left NULL.
NoMax == -4
\* Task.recurring_pattern left NULL.
NoPattern == [frequency |-> "none"]

\* date.weekday(): Monday is 0.
Weekday(dt) == (ToOrdinal(dt) + 6) % 7

Pattern(frequency, interval, weekdays, day_of_month, custom_days, end_date, max_occurrences) ==
    [frequency |-> frequency, interval |-> interval, weekdays |-> weekdays,
     day_of_month |-> day_of_month, custom_days |-> custom_days,
     end_date |-> end_date, max_occurrences |-> max_occurrences]

\* Task.calculate_priority_score on the day the task is saved.
calculate_priority_score(priority, complete_by_date, day) ==
    LET score == CASE priority = "High" -> 30
                   [] priority = "Medium" -> 20
                   [] priority = "Low" -> 10
                   [] OTHER -> 20
        days_until_due == ToOrdinal(complete_by_date) - ToOrdinal(day)
    IN  IF complete_by_date = NoDate THEN score
        ELSE IF days_until_due < 0 THEN score + 40
        ELSE IF days_until_due = 0 THEN score + 35
        ELSE IF days_until_due = 1 THEN score + 30
        ELSE IF days_until_due <= 3 THEN score + 25
        ELSE IF days_until_due <= 7 THEN score + 15
        ELSE IF days_until_due <= 14 THEN score + 10
        ELSE score

\* Task.save: the score is computed, then the row is stored.
Task_save(task, day) ==
    [task EXCEPT !.priority_score =
                     calculate_priority_score(task.priority, task.complete_by_date, day)]

\* A Task as the task form builds it, before it is saved.
NewTask(priority, complete_by_date, is_recurring, pattern) ==
    [priority |-> priority, priority_score |-> 0,
     complete_by_date |-> complete_by_date, status |-> "Pending",
     completed_on |-> 0, is_deleted |-> FALSE, is_recurring |-> is_recurring,
     recurring_pattern |-> pattern, recurring_parent |-> 0,
     occurrence_count |-> 0]

\* The WEEKLY loop: the first of the next days_left days whose weekday is listed.
RECURSIVE next_weekday(_, _, _)
next_weekday(next_date, days_left, weekdays) ==
    IF days_left = 0 THEN NoDate
    ELSE IF Weekday(next_date) \in weekdays THEN next_date
    ELSE next_weekday(AddDays(next_date, 1), days_left - 1, weekdays)

\* Task._calculate_next_date; DateError when date.replace raises ValueError.
calculate_next_date(complete_by_date, pattern) ==
    LET current_date == complete_by_date
    IN  IF current_date = NoDate THEN NoDate
        ELSE IF pattern.frequency = "DAILY"
        THEN AddDays(current_date, pattern.interval)
        ELSE IF pattern.frequency = "WEEKLY"
        THEN next_weekday(AddDays(current_date, 1), 7 * pattern.interval,
                          pattern.weekdays)
        ELSE IF pattern.frequency = "MONTHLY"
        THEN LET m0 == Month(current_date) + pattern.interval
                 year == Year(current_date) + ((m0 - 1) \div 12)
                 month == ((m0 - 1) % 12) + 1
                 day == IF pattern.day_of_month # 0 THEN pattern.day_of_month
                        ELSE Day(current_date)
             IN  IF ValidDate(year, month, day) THEN MkDate(year, month, day)
                 ELSE MkDate(year, month, 28)
        ELSE IF pattern.frequency = "YEARLY"
        THEN IF ValidDate(Year(current_date) + pattern.interval,
                          Month(current_date), Day(current_date))
             THEN MkDate(Year(current_date) + pattern.interval,
                         Month(current_date), Day(current_date))
             ELSE DateError
        ELSE IF pattern.frequency = "CUSTOM" /\ pattern.custom_days \notin {NoneDays, 0}
        THEN AddDays(current_date, pattern.custom_days)
        ELSE NoDate

\* The next occurrence pointing at the task just completed instead of at the
\* first task of the series.
NextTask_chained(ts, self, next_date) ==
    [priority |-> ts[self].priority,
     priority_score |-> calculate_priority_score(ts[self].priority, next_date, today),
     complete_by_date |-> next_date, status |-> "Pending", completed_on |-> 0,
     is_deleted |-> FALSE, is_recurring |-> TRUE, recurring_pattern |-> ts[self].recurring_pattern,
     recurring_parent |-> self,
     occurrence_count |-> ts[self].occurrence_count + 1]

\* The row Task.objects.create stores for the next occurrence of task self.
NextTask(ts, self, next_date) ==
    [priority |-> ts[self].priority,
     priority_score |-> calculate_priority_score(ts[self].priority, next_date, today),
     complete_by_date |-> next_date, status |-> "Pending", completed_on |-> 0,
     is_deleted |-> FALSE, is_recurring |-> TRUE, recurring_pattern |-> ts[self].recurring_pattern,
     recurring_parent |-> IF ts[self].recurring_parent # 0
                          THEN ts[self].recurring_parent ELSE self,
     occurrence_count |-> ts[self].occurrence_count + 1]

\* create_next_occurrence generating on every call, whatever the pattern's
\* limits, and once more for a task that is itself a generated one.
create_next_occurrence_eager(ts, self) ==
    LET pattern == ts[self].recurring_pattern
        next_date == calculate_next_date(ts[self].complete_by_date, pattern)
        one == Append(ts, NextTask(ts, self, next_date))
    IN  IF pattern = NoPattern THEN [tasks |-> ts, outcome |-> "none"]
        ELSE IF next_date = DateError THEN [tasks |-> ts, outcome |-> "ValueError"]
        ELSE IF next_date = NoDate THEN [tasks |-> ts, outcome |-> "none"]
        ELSE IF ts[self].recurring_parent # 0
        THEN [tasks |-> Append(one, NextTask(ts, self, next_date)),
              outcome |-> "created"]
        ELSE [tasks |-> one, outcome |-> "created"]

\* Task.create_next_occurrence on row self of table ts: the table afterwards
\* and how the call ended.
create_next_occurrence(ts, self) ==
    LET pattern == ts[self].recurring_pattern
        next_date == calculate_next_date(ts[self].complete_by_date, pattern)
    IN  IF pattern = NoPattern THEN [tasks |-> ts, outcome |-> "none"]
        ELSE IF /\ pattern.max_occurrences \notin {NoMax, 0}
                /\ ts[self].occurrence_count >= pattern.max_occurrences
        THEN [tasks |-> ts, outcome |-> "none"]
        ELSE IF next_date = DateError THEN [tasks |-> ts, outcome |-> "ValueError"]
        ELSE IF next_date = NoDate THEN [tasks |-> ts, outcome |-> "none"]
        ELSE IF pattern.end_date # NoDate /\ next_date > pattern.end_date
        THEN [tasks |-> ts, outcome |-> "none"]
        ELSE [tasks |-> Append(ts, NextTask(ts, self, next_date)),
              outcome |-> "created"]

\* Task.mark_complete: the completion is saved, then the next occurrence is
\* generated; completed_on is the time of the request.
mark_complete(self) ==
    /\ self \in 1..Len(tasks)
    /\ LET saved == [tasks EXCEPT
                        ![self] = Task_save([@ EXCEPT !.status = "Completed",
                                                      !.completed_on = served + 1],
                                            today)]
           done == IF saved[self].is_recurring
                      /\ saved[self].recurring_pattern # NoPattern
                   THEN create_next_occurrence(saved, self)
                   ELSE [tasks |-> saved, outcome |-> "none"]
       IN  /\ tasks' = done.tasks
           /\ last' = [op |-> "mark_complete", outcome |-> done.outcome]
    /\ UNCHANGED <<product, transactions, ledger, payments, calls, reminder, today, limiter>>

MarkComplete == Budget /\ \E self \in 1..Len(tasks) : mark_complete(self)

\* view_task.taskAction on task id: the fields of the action are set and the
\* task is saved; nothing else is called.
taskAction(id, action) ==
    /\ id \in 1..Len(tasks)
    /\ LET task == tasks[id]
           changed ==
               CASE action = "complete" ->
                        [task EXCEPT !.completed_on = served + 1,
                                     !.status = "Completed"]
                 [] action = "incomplete" ->
                        [task EXCEPT !.completed_on = 0,
                                     !.status = "Pending",
                                     !.is_deleted = FALSE]
                 [] action = "delete" ->
                        [task EXCEPT !.is_deleted = TRUE]
                 [] OTHER -> task
       IN  tasks' = [tasks EXCEPT ![id] = Task_save(changed, today)]
    /\ last' = [op |-> "taskAction", outcome |-> action]
    /\ UNCHANGED <<product, transactions, ledger, payments, calls, reminder, today, limiter>>

TaskActions == {"complete", "incomplete", "delete"}

TaskAction ==
    /\ Budget
    /\ \E id \in 1..Len(tasks), action \in TaskActions : taskAction(id, action)

\* A task entered by the user (the pattern through the admin form): the first
\* of its series, with no recurring_parent.
create_task(complete_by_date, is_recurring, pattern) ==
    /\ Cardinality({i \in 1..Len(tasks) : tasks[i].recurring_parent = 0}) < MaxSeries
    /\ tasks' = Append(tasks,
                       Task_save(NewTask("Medium", complete_by_date, is_recurring,
                                         pattern), today))
    /\ last' = [op |-> "create_task", outcome |-> "ok"]
    /\ UNCHANGED <<product, transactions, ledger, payments, calls, reminder, today, limiter>>

TaskDates == {NoDate, 20240131, 20240229}
TaskPatterns ==
    {NoPattern,
     Pattern("DAILY", 1, {}, 0, NoneDays, NoDate, NoMax),
     Pattern("DAILY", 1, {}, 0, NoneDays, 20240215, NoMax),
     Pattern("DAILY", 1, {}, 0, NoneDays, NoDate, 0),
     Pattern("DAILY", 1, {}, 0, NoneDays, NoDate, 1),
     Pattern("WEEKLY", 1, {}, 0, NoneDays, NoDate, NoMax),
     Pattern("MONTHLY", 1, {}, 31, NoneDays, NoDate, 2),
     Pattern("YEARLY", 1, {}, 0, NoneDays, NoDate, NoMax)}

CreateTask ==
    /\ Budget
    /\ \E complete_by_date \in TaskDates, is_recurring \in BOOLEAN,
          pattern \in TaskPatterns :
        create_task(complete_by_date, is_recurring, pattern)

(***************************************************************************)
(* Reminders                                                               *)
(***************************************************************************)
\* A Reminder row. An empty set stands for a weekdays or month_days that is
\* NULL or empty, 0 for a custom_repeat_days that is NULL or 0, NoDate for a
\* snoozed_until that is NULL; snoozed_until is kept to the day. The legacy
\* field frequency has its default.
ReminderRow(reminder_type, reminder_date, weekdays, month_days, custom_repeat_days, is_snoozed, snoozed_until, is_dismissed) ==
    [reminder_type |-> reminder_type, reminder_date |-> reminder_date,
     weekdays |-> weekdays, month_days |-> month_days,
     custom_repeat_days |-> custom_repeat_days, is_snoozed |-> is_snoozed,
     snoozed_until |-> snoozed_until, is_dismissed |-> is_dismissed,
     frequency |-> "daily"]

\* is_due_today taking a weekly reminder's weekday without looking at its
\* start date.
is_due_today_any_week(r, day) ==
    IF r.is_snoozed /\ r.snoozed_until # NoDate /\ day < r.snoozed_until THEN FALSE
    ELSE IF r.is_dismissed THEN FALSE
    ELSE IF r.reminder_type = "one_time" THEN r.reminder_date = day
    ELSE IF r.reminder_type = "daily" THEN r.reminder_date <= day
    ELSE IF r.reminder_type = "weekly" THEN Weekday(day) \in r.weekdays
    ELSE IF r.reminder_type = "monthly"
    THEN IF r.reminder_date > day THEN FALSE
         ELSE IF r.month_days # {} THEN Day(day) \in r.month_days
         ELSE Day(r.reminder_date) = Day(day)
    ELSE IF r.reminder_type = "yearly"
    THEN IF r.reminder_date > day THEN FALSE
         ELSE Day(r.reminder_date) = Day(day) /\ Month(r.reminder_date) = Month(day)
    ELSE IF r.reminder_type = "custom"
    THEN IF r.custom_repeat_days # 0 /\ r.reminder_date <= day
         THEN (ToOrdinal(day) - ToOrdinal(r.reminder_date)) % r.custom_repeat_days = 0
         ELSE FALSE
    ELSE FALSE

\* Reminder.is_due_today, with day the value of date.today(). A linked
\* reminder is never due: Task has no attribute deadline.
is_due_today(r, day) ==
    IF r.is_snoozed /\ r.snoozed_until # NoDate /\ day < r.snoozed_until THEN FALSE
    ELSE IF r.is_dismissed THEN FALSE
    ELSE IF r.reminder_type = "one_time" THEN r.reminder_date = day
    ELSE IF r.reminder_type = "daily" THEN r.reminder_date <= day
    ELSE IF r.reminder_type = "weekly"
    THEN IF r.reminder_date > day THEN FALSE
         ELSE IF r.weekdays # {} THEN Weekday(day) \in r.weekdays
         ELSE FALSE
    ELSE IF r.reminder_type = "monthly"
    THEN IF r.reminder_date > day THEN FALSE
         ELSE IF r.month_days # {} THEN Day(day) \in r.month_days
         ELSE Day(r.reminder_date) = Day(day)
    ELSE IF r.reminder_type = "yearly"
    THEN IF r.reminder_date > day THEN FALSE
         ELSE Day(r.reminder_date) = Day(day) /\ Month(r.reminder_date) = Month(day)
    ELSE IF r.reminder_type = "custom"
    THEN IF r.custom_repeat_days # 0 /\ r.reminder_date <= day
         THEN (ToOrdinal(day) - ToOrdinal(r.reminder_date)) % r.custom_repeat_days = 0
         ELSE FALSE
    ELSE FALSE

IsDueToday ==
    /\ reminder # NoReminder
    /\ last' = [op |-> "is_due_today", outcome |-> is_due_today(reminder, today)]
    /\ UNCHANGED <<product, transactions, ledger, served, other_tables>>

ReminderDates == {20240101, 20240131, 20240229}
ReminderTodays ==
    {20231231, 20240101, 20240102, 20240103, 20240105, 20240111, 20240131,
     20240229, 20240301, 20250101, 20250228}
\* Not snoozed, snoozed until a day to come, snoozed until a day gone by,
\* dismissed.
ReminderFlags ==
    {<<FALSE, NoDate, FALSE>>, <<TRUE, 20260101, FALSE>>,
     <<TRUE, 20230101, FALSE>>, <<FALSE, NoDate, TRUE>>}
Reminders ==
    {ReminderRow(t, d, {}, {}, 0, f[1], f[2], f[3]) :
        t \in {"one_time", "daily", "yearly", "linked_task"},
        d \in ReminderDates, f \in ReminderFlags}
    \cup {ReminderRow("weekly", d, w, {}, 0, f[1], f[2], f[3]) :
             d \in ReminderDates, w \in {{}, {0, 2, 4}}, f \in ReminderFlags}
    \cup {ReminderRow("monthly", d, {}, m, 0, f[1], f[2], f[3]) :
             d \in ReminderDates, m \in {{}, {1, 31}}, f \in ReminderFlags}
    \cup {ReminderRow("custom", d, {}, {}, c, f[1], f[2], f[3]) :
             d \in ReminderDates, c \in {0, 10}, f \in ReminderFlags}

(***************************************************************************)
(* The reminder requests and the due-today list                            *)
(***************************************************************************)
\* The reminder is one calculate_reminder puts on the list of day: chosen by
\* the legacy frequency field alone.
calculate_reminder(r, day) ==
    IF r.reminder_date > day THEN FALSE
    ELSE IF r.frequency = "daily" THEN TRUE
    ELSE IF r.frequency = "monthly" THEN Day(r.reminder_date) = Day(day)
    ELSE IF r.frequency = "yearly"
    THEN Day(r.reminder_date) = Day(day) /\ Month(r.reminder_date) = Month(day)
    ELSE IF r.frequency = "custom"
    THEN /\ r.custom_repeat_days # 0
         /\ (ToOrdinal(day) - ToOrdinal(r.reminder_date)) % r.custom_repeat_days = 0
    ELSE FALSE

CalculateReminder ==
    /\ reminder # NoReminder
    /\ last' = [op |-> "calculate_reminder",
                outcome |-> calculate_reminder(reminder, today)]
    /\ UNCHANGED <<product, transactions, ledger, served, other_tables>>

\* add_reminder: weekdays and month_days are kept only for their own type.
add_reminder(reminder_type, reminder_date, weekdays_list, month_days_list, custom_repeat_days, frequency) ==
    /\ reminder = NoReminder
    /\ reminder' =
          [ReminderRow(reminder_type, reminder_date,
                       IF reminder_type = "weekly" THEN weekdays_list ELSE {},
                       IF reminder_type = "monthly" THEN month_days_list ELSE {},
                       custom_repeat_days, FALSE, NoDate, FALSE)
              EXCEPT !.frequency = frequency]
    /\ last' = [op |-> "add_reminder", outcome |-> "ok"]
    /\ UNCHANGED <<product, transactions, ledger, payments, calls, tasks, today, limiter>>

ReminderTypes == {"one_time", "daily", "weekly", "monthly", "yearly", "custom"}
LegacyFrequencies == {"daily", "monthly"}
NewReminderDates == {20240101, 20240102}

AddReminder ==
    /\ Budget
    /\ \E reminder_type \in ReminderTypes, reminder_date \in NewReminderDates,
          weekdays_list \in {{0, 2, 4}}, month_days_list \in {{}, {1}},
          custom_repeat_days \in {0, 2}, frequency \in LegacyFrequencies :
        add_reminder(reminder_type, reminder_date, weekdays_list, month_days_list,
                     custom_repeat_days, frequency)

\* snooze_reminder; time is kept to the day, so the reminder is snoozed for a
\* number of whole days.
snooze_reminder(days) ==
    /\ reminder # NoReminder
    /\ IF reminder.is_dismissed
       THEN /\ last' = [op |-> "snooze_reminder", outcome |-> "CannotSnooze"]
            /\ UNCHANGED reminder
       ELSE /\ reminder' = [reminder EXCEPT !.is_snoozed = TRUE,
                                            !.snoozed_until = AddDays(today, days)]
            /\ last' = [op |-> "snooze_reminder", outcome |-> "ok"]
    /\ UNCHANGED <<product, transactions, ledger, payments, calls, tasks, today, limiter>>

SnoozeReminder == Budget /\ \E days \in {0, 2} : snooze_reminder(days)

dismiss_reminder ==
    /\ reminder # NoReminder
    /\ reminder' = [reminder EXCEPT !.is_dismissed = TRUE]
    /\ last' = [op |-> "dismiss_reminder", outcome |-> "ok"]
    /\ UNCHANGED <<product, transactions, ledger, payments, calls, tasks, today, limiter>>

DismissReminder == Budget /\ dismiss_reminder

\* Midnight passes: date.today() is the next day.
NextDay ==
    /\ Budget
    /\ today' = AddDays(today, 1)
    /\ last' = [op |-> "next_day", outcome |-> "ok"]
    /\ UNCHANGED <<product, transactions, ledger, payments, calls, tasks, reminder, limiter>>

(***************************************************************************)
(* ledger_utils.get_aging_report                                           *)
(***************************************************************************)
AgingBuckets == {"current", "0_30", "31_60", "61_90", "90_plus"}

\* The bucket the loop of calculate_aging adds txn.remaining_amount to.
aging_bucket_late(txn, day) ==
    IF txn.due_date = 0 \/ txn.due_date >= day THEN "current"
    ELSE LET days_overdue == ToOrdinal(day) - ToOrdinal(txn.due_date)
         IN  IF days_overdue <= 31 THEN "0_30"
             ELSE IF days_overdue <= 61 THEN "31_60"
             ELSE IF days_overdue <= 91 THEN "61_90"
             ELSE "90_plus"

aging_bucket(txn, day) ==
    IF txn.due_date = 0 \/ txn.due_date >= day THEN "current"
    ELSE LET days_overdue == ToOrdinal(day) - ToOrdinal(txn.due_date)
         IN  IF days_overdue <= 30 THEN "0_30"
             ELSE IF days_overdue <= 60 THEN "31_60"
             ELSE IF days_overdue <= 90 THEN "61_90"
             ELSE "90_plus"

\* Sum of remaining_amount over the rows of a queryset.
RECURSIVE SumRemaining(_)
SumRemaining(rows) ==
    IF rows = <<>> THEN 0
    ELSE Head(rows).remaining_amount + SumRemaining(Tail(rows))

\* calculate_aging of get_aging_report: the open rows of one type, bucketed.
calculate_aging(rows, day, transaction_type) ==
    LET query == SelectSeq(rows, LAMBDA r : /\ ~r.is_deleted
                                            /\ r.transaction_type = transaction_type
                                            /\ r.status \in {"PENDING", "PARTIAL"})
    IN  [b \in AgingBuckets |->
            SumRemaining(SelectSeq(query, LAMBDA txn : aging_bucket(txn, day) = b))]

get_aging_report(rows, day) ==
    [receivables |-> calculate_aging(rows, day, "RECEIVABLE"),
     payables |-> calculate_aging(rows, day, "PAYABLE")]

GetAgingReport ==
    /\ last.op # "get_aging_report"
    /\ last' = [op |-> "get_aging_report", outcome |-> get_aging_report(ledger, today)]
    /\ UNCHANGED <<product, transactions, ledger, served, other_tables>>

\* Obligations as the ledger holds them on the day of the report: open,
\* partly paid or settled, live or soft-deleted, due some days before the
\* report, on its day, after it or never.
AgingDaysOverdue == {-1, 0, 1, 30, 31, 45, 60, 61, 90, 91}
AgingDueDates == {0} \cup {AddDays(Today, 0 - k) : k \in AgingDaysOverdue}
AgingTypes == {"RECEIVABLE", "PAYABLE", "RECEIVED"}
AgingStates ==
    {[status |-> "PENDING", amount |-> 500, paid_amount |-> 0],
     [status |-> "PARTIAL", amount |-> 500, paid_amount |-> 200],
     [status |-> "COMPLETED", amount |-> 500, paid_amount |-> 500],
     [status |-> "COMPLETED", amount |-> 500, paid_amount |-> 400]}

AgingRows ==
    {[LedgerRow(0, 0, 0, s.amount, 20230901, due_date, transaction_type)
         EXCEPT !.status = s.status,
                !.paid_amount = s.paid_amount,
                !.remaining_amount = s.amount - s.paid_amount,
                !.is_deleted = is_deleted] :
        s \in AgingStates, due_date \in AgingDueDates,
        transaction_type \in AgingTypes, is_deleted \in BOOLEAN}

(***************************************************************************)
(* Tasks of every priority and due date                                    *)
(***************************************************************************)
Priorities == {"High", "Medium", "Low"}
PriorityDates == {NoDate} \cup {AddDays(Today, k) : k \in (0 - 2)..16}

\* A task entered with a priority and a due date only, saved.
TaskSave ==
    /\ Len(tasks) < MaxScored
    /\ \E priority \in Priorities, complete_by_date \in PriorityDates :
          tasks' = Append(tasks, Task_save(NewTask(priority, complete_by_date,
                                                   FALSE, NoPattern), today))
    /\ last' = [op |-> "Task.save", outcome |-> "ok"]
    /\ UNCHANGED <<product, transactions, ledger, served, payments, calls, reminder, today, limiter>>



(***************************************************************************)
(* ledger_utils.calculate_counterparty_balance (one counterparty)          *)
(***************************************************************************)
\* Sum('remaining_amount') over the live rows of one type that are PENDING or
\* PARTIAL, all of them or those with a due date before day.
PendingTotal(rows, transaction_type, overdue_only, day) ==
    SumRemaining(SelectSeq(rows, LAMBDA r :
        /\ ~r.is_deleted
        /\ r.transaction_type = transaction_type
        /\ r.status \in {"PENDING", "PARTIAL"}
        /\ overdue_only => (r.due_date # 0 /\ r.due_date < day)))

calculate_counterparty_balance(rows, day) ==
    LET receivable_pending == PendingTotal(rows, "RECEIVABLE", FALSE, day)
        payable_pending == PendingTotal(rows, "PAYABLE", FALSE, day)
        net_balance == receivable_pending - payable_pending
    IN  [total_receivable |-> receivable_pending,
         total_payable |-> payable_pending,
         net_balance |-> net_balance,
         status |-> IF net_balance > 0 THEN "OWE_YOU"
                    ELSE IF net_balance < 0 THEN "YOU_OWE"
                    ELSE "SETTLED",
         overdue_receivable |-> PendingTotal(rows, "RECEIVABLE", TRUE, day),
         overdue_payable |-> PendingTotal(rows, "PAYABLE", TRUE, day)]

(***************************************************************************)
(* middleware.SimpleRateLimitMiddleware on one path and one client IP      *)
(***************************************************************************)
\* RATE_LIMITS['/send-otp/'].
max_requests == 3
time_window == 300

\* cache.get(cache_key, default): the entry while it has not expired, else
\* the default built at the time of the call.
cache_get(now) ==
    IF cache.expires > now
    THEN [count |-> cache.count, reset_time |-> cache.reset_time]
    ELSE [count |-> 0, reset_time |-> now + time_window]

\* cache.set(cache_key, request_data, timeout) at time now; a timeout of 0
\* stores an entry that has expired already.
cache_set(request_data, timeout, now) ==
    [count |-> request_data.count, reset_time |-> request_data.reset_time,
     expires |-> now + timeout]

\* The body of check_rate_limit after cache.get: what it decides, and the
\* entry and timeout it hands to cache.set.
limit_step(request_data, current_time) ==
    IF current_time > request_data.reset_time
    THEN [allowed |-> TRUE, write |-> TRUE,
          request_data |-> [count |-> 1, reset_time |-> current_time + time_window],
          timeout |-> time_window]
    ELSE IF request_data.count >= max_requests
    THEN [allowed |-> FALSE, write |-> FALSE, request_data |-> request_data,
          timeout |-> 0]
    ELSE [allowed |-> TRUE, write |-> TRUE,
          request_data |-> [request_data EXCEPT !.count = @ + 1],
          timeout |-> request_data.reset_time - current_time]

Response(allowed, window, at) == [allowed |-> allowed, window |-> window, at |-> at]

\* __call__ up to the cache.get of check_rate_limit and the decision taken on
\* what it read; a request over the limit is answered 403 at once.
check_rate_limit_get(h) ==
    /\ requests[h].pc = "idle"
    /\ Len(responses) + Cardinality({g \in Handlers : requests[g].pc # "idle"})
           < MaxRequests
    /\ LET request_data == cache_get(clock)
           step == limit_step(request_data, clock)
       IN  IF step.write
           THEN /\ requests' = [requests EXCEPT ![h] =
                                    [pc |-> "decided", request_data |-> step.request_data,
                                     timeout |-> step.timeout,
                                     window |-> request_data.reset_time]]
                /\ UNCHANGED responses
           ELSE /\ responses' = Append(responses,
                                       Response(FALSE, request_data.reset_time, clock))
                /\ UNCHANGED requests
    /\ last' = [op |-> "check_rate_limit", outcome |-> "get"]
    /\ UNCHANGED <<product, transactions, ledger, served, payments, calls, tasks,
                   reminder, today, cache, clock>>

\* The cache.set of check_rate_limit, then get_response: the view runs.
check_rate_limit_set(h) ==
    /\ requests[h].pc = "decided"
    /\ cache' = cache_set(requests[h].request_data, requests[h].timeout, clock)
    /\ responses' = Append(responses, Response(TRUE, requests[h].window, clock))
    /\ requests' = [requests EXCEPT ![h] = Idle]
    /\ last' = [op |-> "check_rate_limit", outcome |-> "set"]
    /\ UNCHANGED <<product, transactions, ledger, served, payments, calls, tasks,
                   reminder, today, clock>>

CheckRateLimitGet == \E h \in Handlers : check_rate_limit_get(h)

CheckRateLimitSet == \E h \in Handlers : check_rate_limit_set(h)

\* Time passes, from one of the instants of the model to a later one: the
\* start, a second later, the end of the first window, a second after it.
Instants == {0, 1, time_window, time_window + 1}

Tick ==
    /\ \E t \in Instants : t > clock /\ clock' = t
    /\ last' = [op |-> "tick", outcome |-> "ok"]
    /\ UNCHANGED <<product, transactions, ledger, served, payments, calls, tasks,
                   reminder, today, cache, requests, responses>>

(***************************************************************************)
(* Specifications                                                          *)
(***************************************************************************)
\* Every request on the financial product and its installments.
Next ==
    \/ CreateFinance
    \/ UpdateFinanceDetail
    \/ UpdateTransaction
    \/ UpdateTransactionStatus
    \/ DeleteTransaction
    \/ UndoTransaction
    \/ UpdateInstrumentStatus
    \/ RemoveInstrument

Spec == Init /\ [][Next]_vars

\* The schedule of one obligation through requests that all succeeded:
\* creation, recalculation, completion of installments.
CreateFinanceOk == CreateFinance /\ last'.outcome = "ok"

UpdateFinanceDetailOk == UpdateFinanceDetail /\ last'.outcome = "ok"

NextSchedule ==
    \/ CreateFinanceOk
    \/ UpdateFinanceDetailOk
    \/ UpdateTransactionStatus

ScheduleSpec == Init /\ [][NextSchedule]_vars

\* The installments of one obligation created, recalculated, deleted and
\* restored, through requests that all succeeded.
NextInstallmentCount ==
    \/ CreateFinanceOk
    \/ UpdateFinanceDetailOk
    \/ DeleteTransaction
    \/ UndoTransaction

InstallmentCountSpec == Init /\ [][NextInstallmentCount]_vars

\* The two schedule generators.
NextGenerator ==
    \/ CreateFinance
    \/ CreateInstallmentTransactions

GeneratorSpec == Init /\ [][NextGenerator]_vars

\* The requests on the ledger: entering obligations, editing them, paying them.
NextLedger ==
    \/ AddLedgerTransaction
    \/ UpdateLedgerTransaction
    \/ RecordPayment

LedgerSpec == Init /\ [][NextLedger]_vars

\* Payments on the ledger served by two request handlers at once.
NextPaymentRace ==
    \/ AddLedgerTransaction
    \/ RecordPaymentGet
    \/ RecordPaymentCreate

PaymentRaceSpec == Init /\ [][NextPaymentRace]_vars

\* Tasks entered by the user and completed, each completion generating the
\* next occurrence of a recurring task.
NextTasks ==
    \/ CreateTask
    \/ MarkComplete

TaskSpec == Init /\ [][NextTasks]_vars

\* The same with the requests of the task list: complete, incomplete, delete.
NextTaskActions ==
    \/ CreateTask
    \/ MarkComplete
    \/ TaskAction

TaskActionSpec == Init /\ [][NextTaskActions]_vars

\* Task._calculate_next_date on its own: one task of any pattern and any
\* anchor date, and the call on it.
NextDateAnchors == {20231115, 20240101, 20240129, 20240131, 20240229, 20241231}
NextDatePatterns ==
    {Pattern("DAILY", n, {}, 0, NoneDays, NoDate, NoMax) : n \in {1, 2}}
    \cup {Pattern("WEEKLY", n, w, 0, NoneDays, NoDate, NoMax) :
              n \in {1, 2}, w \in {{}, {0, 2, 4}, {6}}}
    \cup {Pattern("MONTHLY", n, {}, d, NoneDays, NoDate, NoMax) :
              n \in {1, 13}, d \in {0, 31}}
    \cup {Pattern("YEARLY", n, {}, 0, NoneDays, NoDate, NoMax) : n \in {1, 4}}
    \cup {Pattern("CUSTOM", 1, {}, 0, c, NoDate, NoMax) : c \in {NoneDays, 10}}

NextDateInit ==
    /\ product = NoProduct
    /\ transactions = <<>>
    /\ ledger = <<>>
    /\ last = [op |-> "none", outcome |-> "none"]
    /\ served = 0
    /\ payments = <<>>
    /\ calls = [h \in Handlers |-> Idle]
    /\ NoTraffic
    /\ \E complete_by_date \in NextDateAnchors, pattern \in NextDatePatterns :
           tasks = <<Task_save(NewTask("Medium", complete_by_date, TRUE, pattern),
                               Today)>>
    /\ reminder = NoReminder
    /\ today = Today

CalculateNextDate ==
    /\ Len(tasks) = 1
    /\ last' = [op |-> "calculate_next_date",
                outcome |-> calculate_next_date(tasks[1].complete_by_date,
                                                tasks[1].recurring_pattern)]
    /\ UNCHANGED <<product, transactions, ledger, served, other_tables>>

NextDateSpec == NextDateInit /\ [][CalculateNextDate]_vars

\* Reminder.is_due_today on its own: any reminder, on any day.
ReminderInit ==
    /\ product = NoProduct
    /\ transactions = <<>>
    /\ ledger = <<>>
    /\ last = [op |-> "none", outcome |-> "none"]
    /\ served = 0
    /\ payments = <<>>
    /\ calls = [h \in Handlers |-> Idle]
    /\ NoTraffic
    /\ tasks = <<>>
    /\ reminder \in Reminders
    /\ today \in ReminderTodays

ReminderSpec == ReminderInit /\ [][IsDueToday]_vars

\* A reminder entered, snoozed and dismissed by its user over some days, and
\* asked for on any of them.
NextReminders ==
    \/ AddReminder
    \/ SnoozeReminder
    \/ DismissReminder
    \/ NextDay
    \/ IsDueToday
    \/ CalculateReminder

ReminderListSpec == Init /\ [][NextReminders]_vars

\* The aging report over every ledger of one or two obligations.
AgingInit ==
    /\ product = NoProduct
    /\ transactions = <<>>
    /\ ledger \in {<<a>> : a \in AgingRows} \cup {<<a, b>> : a \in AgingRows, b \in AgingRows}
    /\ last = [op |-> "none", outcome |-> "none"]
    /\ served = 0
    /\ payments = <<>>
    /\ calls = [h \in Handlers |-> Idle]
    /\ NoTraffic
    /\ tasks = <<>>
    /\ reminder = NoReminder
    /\ today = Today

AgingSpec == AgingInit /\ [][GetAgingReport]_vars

\* Tasks of every priority and due date saved on one day.
PrioritySpec == Init /\ [][TaskSave]_vars

\* Requests on one rate-limited path from one client, served by two handlers.
NextRateLimit ==
    \/ CheckRateLimitGet
    \/ CheckRateLimitSet
    \/ Tick

RateLimitSpec == Init /\ [][NextRateLimit]_vars

(***************************************************************************)
(* Reference definitions used by the properties                            *)
(***************************************************************************)
\* addMonths of the specification (4.1): n months later on the same day of
\* the month, with year rollover, clamped to day 28 when that day is missing.
addMonths(date, n) ==
    LET m0 == Month(date) + n
        y == Year(date) + ((m0 - 1) \div 12)
        m == ((m0 - 1) % 12) + 1
    IN  IF Day(date) <= DaysInMonth(y, m)
        THEN MkDate(y, m, Day(date)) ELSE MkDate(y, m, 28)

\* dueDate(i) of the specification (4.4).
dueDate(start_date, i, frequency, custom_days) ==
    IF frequency = "MONTHLY" THEN addMonths(start_date, i)
    ELSE IF frequency = "WEEKLY" THEN AddDays(start_date, 7 * i)
    ELSE AddDays(start_date, custom_days * i)

Abs(x) == IF x < 0 THEN -x ELSE x

MinOf(a, b) == IF a < b THEN a ELSE b

\* The step just taken is a recalculation that succeeded.
RecalcSucceeded ==
    /\ served' = served + 1
    /\ last'.op = "update_finance_detail"
    /\ last'.outcome = "ok"

(***************************************************************************)
(* Properties                                                              *)
(***************************************************************************)

\* C1: a recalculation rejected with a validation error (amount below the
\* paid total, count below the completed count, start date conflicting with
\* a paid installment) leaves the obligation and all its installments
\* exactly as they were.
C1_RejectedEditChangesNothing ==
    [][(/\ served' = served + 1
        /\ last'.op = "update_finance_detail"
        /\ last'.outcome \in {"AmountBelowPaid", "CountBelowCompleted",
                              "StartDateConflict"})
       => (product' = product /\ transactions' = transactions)]_vars

\* C2: after every successful recalculation of an obligation with at least
\* one Completed installment, pending amounts + completed amounts equal the
\* new total within one cent per Pending installment.
C2_RecalcPreservesTotal ==
    [][(RecalcSucceeded /\ CompletedIdx(transactions) # {})
       => Abs(SumAmount(transactions', PendingIdx(transactions'))
              + SumAmount(transactions', CompletedIdx(transactions'))
              - product'.amount)
          <= Cardinality(PendingIdx(transactions'))]_vars

\* C3: a recalculation that reduces the count (to no less than the number
\* of Completed installments) deletes no Completed installment, wherever
\* the Completed ones are in the sequence.
C3_ReduceKeepsCompleted ==
    [][(/\ RecalcSucceeded
        /\ product'.no_of_installments < product.no_of_installments
        /\ product'.no_of_installments >= Cardinality(CompletedIdx(transactions)))
       => Cardinality(CompletedIdx(transactions'))
          = Cardinality(CompletedIdx(transactions))]_vars

\* C4: a recalculation that raises the count by k appends exactly k Pending
\* installments, the j-th of them due j months after the last existing one.
C4_AppendContinuesCadence ==
    [][(/\ RecalcSucceeded
        /\ product'.no_of_installments > product.no_of_installments)
       => LET k == product'.no_of_installments - product.no_of_installments
              old == Len(transactions)
          IN  /\ Len(transactions') = old + k
              /\ \A j \in 1..k :
                    /\ transactions'[old + j].status = "Pending"
                    /\ transactions'[old + j].date
                       = addMonths(transactions'[old].date, j)]_vars

\* C5: a recalculation with a new start date does not succeed when a
\* Completed installment is due on or after it; when it succeeds, every
\* Pending installment at position i (0-based) is due i - completedCount
\* months after the new start date and every Completed installment keeps
\* its due date.
C5_RedateOnlyPending ==
    [][\A name \in Names, i_type \in Types, category \in Categories,
          started_on \in StartDates, amount \in UpdateAmounts, n \in Counts :
          (/\ RecalcSucceeded
           /\ update_finance_detail(name, i_type, category, started_on, amount, n)
           /\ started_on # product.started_on)
          => LET done == Cardinality(CompletedIdx(transactions))
                 kept == MinOf(Len(transactions), Len(transactions'))
             IN  /\ \A i \in CompletedIdx(transactions) :
                        transactions[i].date < started_on
                 /\ \A i \in 1..kept :
                        IF transactions[i].status = "Completed"
                        THEN transactions'[i].date = transactions[i].date
                        ELSE transactions'[i].date
                             = addMonths(started_on, (i - 1) - done)]_vars

\* C6: the installments of an obligation, in sequence order, have strictly
\* increasing due dates.
C6_DueDatesIncrease ==
    \A i \in LiveIdx(transactions) : \A j \in LiveIdx(transactions) :
        i < j => transactions[i].date < transactions[j].date

\* C7: no request other than the obligation-level recalculation changes
\* the amount or the date of a Completed installment.
C7_CompletedImmutable ==
    [][(last'.op # "update_finance_detail")
       => \A i \in 1..Len(transactions) :
             transactions[i].status = "Completed"
             => /\ i <= Len(transactions')
                /\ transactions'[i].amount = transactions[i].amount
                /\ transactions'[i].date = transactions[i].date]_vars

\* C8: a Closed financial product has no Pending installment that is not
\* deleted.
C8_ClosedHasNoPending ==
    (product.exists /\ product.status = "Closed")
    => PendingIdx(transactions) = {}

\* C9: create_finance is all-or-nothing: with count < 1 nothing is created;
\* otherwise there is afterwards either nothing new or one obligation with
\* exactly count installments, all Pending, each of amount total / count
\* rounded to cents.
C9_CreateAllOrNothing ==
    [][\A name \in Names, product_type \in Types, category \in Categories,
          amount \in CreateAmounts, n \in Counts, started_on \in StartDates :
          (served' = served + 1
           /\ create_finance(name, product_type, category, amount, n, started_on))
          => \/ (product' = product /\ transactions' = transactions)
             \/ /\ n >= 1
                /\ product'.exists
                /\ Len(transactions') = n
                /\ \A i \in 1..n :
                      /\ transactions'[i].status = "Pending"
                      /\ transactions'[i].amount = RoundDiv(amount * 100, n)]_vars

\* C10: installment i (0-based) of a created schedule is due at the start
\* date advanced by i cadence steps (addMonths for MONTHLY, 7 * i days for
\* WEEKLY, customDays * i days for CUSTOM), for both schedule generators.
C10_DueDateIsCadenceStep ==
    [][/\ \A name \in Names, product_type \in Types, category \in Categories,
             amount \in CreateAmounts, n \in Counts, started_on \in StartDates :
             create_finance(name, product_type, category, amount, n, started_on)
             => \A i \in 1..Len(transactions') :
                   transactions'[i].date = addMonths(started_on, i - 1)
       /\ \A base_amount \in LedgerAmounts, n \in LedgerCounts,
             frequency \in Frequencies, start_date \in StartDates,
             custom_days \in CustomDays, transaction_type \in LedgerTypes :
             create_installment_transactions(base_amount, n, frequency,
                                             start_date, custom_days,
                                             transaction_type)
             => \A r \in (Len(ledger) + 1)..Len(ledger') :
                   ledger'[r].parent_transaction # 0
                   => ledger'[r].due_date
                      = dueDate(start_date, ledger'[r].installment_number - 1,
                                frequency, custom_days)]_vars

\* C11: a record_payment of more than the obligation's remaining amount fails
\* with ValueError (PaymentExceedsRemaining), creates no PaymentRecord and
\* leaves the obligation's paid_amount, remaining_amount and status unchanged.
C11_OverpaymentRejected ==
    [][\A id \in 1..Len(ledger), amount_paid \in PaymentAmounts :
          (record_payment(id, amount_paid) /\ amount_paid > ledger[id].remaining_amount)
              => /\ last'.outcome = "ValueError"
                 /\ payments' = payments
                 /\ ledger'[id].paid_amount = ledger[id].paid_amount
                 /\ ledger'[id].remaining_amount = ledger[id].remaining_amount
                 /\ ledger'[id].status = ledger[id].status]_vars

\* A payment larger than what remains of a partly paid obligation was refused.
C11_Witness ==
    /\ last.op = "record_payment"
    /\ last.outcome = "ValueError"
    /\ \E id \in 1..Len(ledger) :
           ledger[id].status = "PARTIAL" /\ ledger[id].remaining_amount > 0

C13_RemainingIsAmountMinusPaid ==
    \A id \in 1..Len(ledger) :
        /\ ledger[id].remaining_amount = ledger[id].amount - ledger[id].paid_amount
        /\ 0 <= ledger[id].paid_amount
        /\ ledger[id].paid_amount <= ledger[id].amount



\* Sum of the PaymentRecords stored for obligation id.
RECURSIVE PaidBy(_, _)
PaidBy(id, n) ==
    IF n = 0 THEN 0
    ELSE PaidBy(id, n - 1)
         + (IF payments[n].ledger_transaction = id THEN payments[n].amount_paid ELSE 0)

\* What an obligation had paid when it was entered.
PaidAtEntry(row) ==
    IF row.transaction_type \in {"RECEIVED", "PAID"} THEN row.amount ELSE 0

\* C14: record_payment is one atomic read-validate-write, so the payments
\* accepted on an obligation are those of some serial order: two payments
\* that each fit the remaining amount but together exceed it are never both
\* stored, and what is stored for an obligation never exceeds its amount.
C14_PaymentsSerial ==
    \A id \in 1..Len(ledger) :
        PaidAtEntry(ledger[id]) + PaidBy(id, Len(payments)) <= ledger[id].amount

\* The stop conditions of the generator on a task, with next the date
\* Task._calculate_next_date computes for it.
StopCondition(task) ==
    LET pattern == task.recurring_pattern
        next == calculate_next_date(task.complete_by_date, pattern)
    IN  \/ next = NoDate
        \/ /\ pattern.end_date # NoDate
           /\ next \notin {NoDate, DateError}
           /\ next > pattern.end_date
        \/ /\ pattern.max_occurrences # NoMax
           /\ task.occurrence_count + 1 > pattern.max_occurrences

Recurring(task) == task.is_recurring /\ task.recurring_pattern # NoPattern

\* C15: completing a recurring task creates no new task when a stop
\* condition holds: no next date, next date after the pattern's end_date, or
\* max_occurrences set (0 included) and occurrence_count + 1 above it.
C15_StopConditionsHold ==
    [][\A self \in 1..Len(tasks) :
          (mark_complete(self) /\ Recurring(tasks[self]) /\ StopCondition(tasks[self]))
              => Len(tasks') = Len(tasks)]_vars

C18_FailedGenerationLeavesTask ==
    [][\A self \in 1..Len(tasks) :
          (mark_complete(self) /\ last'.outcome = "ValueError")
              => /\ tasks'[self].status = tasks[self].status
                 /\ tasks'[self].completed_on = tasks[self].completed_on]_vars

\* nextOccurrence of the specification (4.2): the date a pattern yields after
\* fromDate, NoDate when there is none.
nextOccurrence(pattern, fromDate) ==
    IF pattern.frequency = "DAILY" THEN AddDays(fromDate, pattern.interval)
    ELSE IF pattern.frequency = "WEEKLY"
    THEN LET hits == {k \in 1..7 : Weekday(AddDays(fromDate, k)) \in pattern.weekdays}
         IN  IF hits = {} THEN NoDate
             ELSE AddDays(fromDate, CHOOSE k \in hits : \A j \in hits : k <= j)
    ELSE IF pattern.frequency = "MONTHLY"
    THEN LET first == addMonths(MkDate(Year(fromDate), Month(fromDate), 1),
                                pattern.interval)
             day == IF pattern.day_of_month # 0 THEN pattern.day_of_month
                    ELSE Day(fromDate)
         IN  IF day <= DaysInMonth(Year(first), Month(first))
             THEN MkDate(Year(first), Month(first), day)
             ELSE MkDate(Year(first), Month(first), 28)
    ELSE IF pattern.frequency = "YEARLY"
    THEN IF ValidDate(Year(fromDate) + pattern.interval, Month(fromDate), Day(fromDate))
         THEN MkDate(Year(fromDate) + pattern.interval, Month(fromDate), Day(fromDate))
         ELSE NoDate
    ELSE IF pattern.frequency = "CUSTOM" /\ pattern.custom_days # NoneDays
    THEN AddDays(fromDate, pattern.custom_days)
    ELSE NoDate

\* C19: for every pattern with interval >= 1 and every anchor date, the 29th
\* to 31st and 29 February included, Task._calculate_next_date does not fail
\* and returns the date nextOccurrence defines (None when there is none).
C19_NextDateIsReference ==
    last.op = "calculate_next_date"
        => /\ last.outcome # DateError
           /\ last.outcome = nextOccurrence(tasks[1].recurring_pattern,
                                            tasks[1].complete_by_date)

\* isDueToday of the specification (4.2) for the recurring types.
isDueToday(r, day) ==
    /\ r.reminder_date <= day
    /\ IF r.reminder_type = "daily" THEN TRUE
       ELSE IF r.reminder_type = "weekly" THEN Weekday(day) \in r.weekdays
       ELSE IF r.reminder_type = "monthly"
       THEN IF r.month_days # {} THEN Day(day) \in r.month_days
            ELSE Day(day) = Day(r.reminder_date)
       ELSE IF r.reminder_type = "yearly"
       THEN Month(day) = Month(r.reminder_date) /\ Day(day) = Day(r.reminder_date)
       ELSE (ToOrdinal(day) - ToOrdinal(r.reminder_date)) % r.custom_repeat_days = 0

\* The reminder is of a recurring type with its interval given, and is
\* neither dismissed nor snoozed until a time still to come.
Evaluable(r, day) ==
    /\ r.reminder_type \in {"daily", "weekly", "monthly", "yearly", "custom"}
    /\ r.reminder_type = "custom" => r.custom_repeat_days >= 1
    /\ ~r.is_dismissed
    /\ ~(r.is_snoozed /\ r.snoozed_until # NoDate /\ day < r.snoozed_until)

\* C20: for a reminder neither snoozed nor dismissed, is_due_today is the
\* value of the reference table isDueToday, for every start date and every
\* today.
C20_DueTodayIsReference ==
    (last.op = "is_due_today" /\ Evaluable(reminder, today))
        => last.outcome = isDueToday(reminder, today)

\* A Monday/Wednesday/Friday reminder started on a Monday was found due on
\* the Wednesday of that week.
C20_Witness ==
    /\ last.op = "is_due_today"
    /\ last.outcome = TRUE
    /\ reminder.reminder_type = "weekly"
    /\ reminder.weekdays = {0, 2, 4}
    /\ Weekday(reminder.reminder_date) = 0
    /\ ToOrdinal(today) = ToOrdinal(reminder.reminder_date) + 2
    /\ Evaluable(reminder, today)

\* The reminder is dismissed, or snoozed until a time still to come.
Silenced(r, day) ==
    \/ r.is_dismissed
    \/ r.is_snoozed /\ r.snoozed_until # NoDate /\ day < r.snoozed_until

\* C21: a reminder that is dismissed, or snoozed until a time still to come,
\* is not reported due today, neither by is_due_today nor on the list that
\* calculate_reminder builds.
C21_SilencedNeverDue ==
    (last.op \in {"is_due_today", "calculate_reminder"} /\ Silenced(reminder, today))
        => last.outcome = FALSE

\* C22: a one_time reminder entered through add_reminder is reported due,
\* by is_due_today and on the list of calculate_reminder, on no day other
\* than its reminder_date.
C22_OneTimeDueOnce ==
    (/\ last.op \in {"is_due_today", "calculate_reminder"}
     /\ reminder.reminder_type = "one_time"
     /\ last.outcome = TRUE)
        => today = reminder.reminder_date

\* The bucket the contract gives an obligation that is k days overdue.
agingBucket(due_date, day) ==
    IF due_date = 0 \/ due_date >= day THEN "current"
    ELSE LET k == ToOrdinal(day) - ToOrdinal(due_date)
         IN  IF k \in 1..30 THEN "0_30"
             ELSE IF k \in 31..60 THEN "31_60"
             ELSE IF k \in 61..90 THEN "61_90"
             ELSE "90_plus"

\* The open obligations of one type, by index in the ledger.
OpenOf(transaction_type) ==
    {i \in 1..Len(ledger) : /\ ~ledger[i].is_deleted
                            /\ ledger[i].transaction_type = transaction_type
                            /\ ledger[i].status \in {"PENDING", "PARTIAL"}}

RECURSIVE RemainingOf(_)
RemainingOf(ids) ==
    IF ids = {} THEN 0
    ELSE LET i == CHOOSE j \in ids : TRUE
         IN  ledger[i].remaining_amount + RemainingOf(ids \ {i})

\* What the contract puts in every bucket of one type, and the buckets' sum.
AgingAsContract(report, transaction_type) ==
    /\ \A b \in AgingBuckets :
          report[b] = RemainingOf({i \in OpenOf(transaction_type) :
                                      agingBucket(ledger[i].due_date, today) = b})
    /\ report["current"] + report["0_30"] + report["31_60"] + report["61_90"]
          + report["90_plus"] = RemainingOf(OpenOf(transaction_type))

\* C23: the aging report adds the remaining amount of every live PENDING or
\* PARTIAL obligation to exactly one bucket of its type (current when it has
\* no due date or is not yet overdue, 0_30, 31_60, 61_90 or 90_plus by the
\* number of days overdue), and nothing for any other obligation.
C23_AgingBuckets ==
    last.op = "get_aging_report" =>
        /\ AgingAsContract(last.outcome.receivables, "RECEIVABLE")
        /\ AgingAsContract(last.outcome.payables, "PAYABLE")

\* An open receivable of 500 that is 45 days overdue, next to a settled
\* obligation that still shows a remaining amount: 500 in 31_60 and no more.
C23_Witness ==
    /\ last.op = "get_aging_report"
    /\ Len(ledger) = 2
    /\ ledger[1].transaction_type = "RECEIVABLE" /\ ledger[1].status = "PENDING"
    /\ ~ledger[1].is_deleted
    /\ ledger[1].due_date = AddDays(today, 0 - 45)
    /\ ledger[2].transaction_type = "RECEIVABLE" /\ ledger[2].status = "COMPLETED"
    /\ ledger[2].remaining_amount > 0 /\ ~ledger[2].is_deleted
    /\ last.outcome.receivables["31_60"] = 500

\* The base of a tier is the score of a task of that tier with no due date;
\* the urgency bonus is what a task's score has above the base of its tier.
BaseScore(priority) == calculate_priority_score(priority, NoDate, today)
UrgencyBonus(task) == task.priority_score - BaseScore(task.priority)
DaysUntilDue(task) == ToOrdinal(task.complete_by_date) - ToOrdinal(today)

\* C24: the priority score is a base fixed by tier (High > Medium > Low) plus
\* an urgency bonus that is one fixed maximum for overdue and due-today
\* tasks, strictly decreases as the days until due increase up to the
\* two-week horizon, and is zero beyond 14 days or with no due date.
C24_PriorityScore ==
    /\ BaseScore("High") > BaseScore("Medium") /\ BaseScore("Medium") > BaseScore("Low")
    /\ \A i \in 1..Len(tasks) :
          LET t == tasks[i]
          IN  /\ t.complete_by_date = NoDate => UrgencyBonus(t) = 0
              /\ t.complete_by_date # NoDate /\ DaysUntilDue(t) > 14 => UrgencyBonus(t) = 0
    /\ \A i, j \in 1..Len(tasks) :
          LET t == tasks[i]
              u == tasks[j]
          IN  (t.complete_by_date # NoDate /\ u.complete_by_date # NoDate) =>
                  /\ (DaysUntilDue(t) <= 0 /\ DaysUntilDue(u) <= 0)
                         => UrgencyBonus(t) = UrgencyBonus(u)
                  /\ (0 <= DaysUntilDue(t) /\ DaysUntilDue(t) < DaysUntilDue(u)
                         /\ DaysUntilDue(u) <= 15)
                         => UrgencyBonus(t) > UrgencyBonus(u)

\* C25: whenever a recurring task with a pattern becomes Completed, through
\* Task.mark_complete or through taskAction with action complete, the next
\* task of the series is created unless a stop condition holds (or no next
\* date can be computed).
C25_EveryCompletionGenerates ==
    [][\A self \in 1..Len(tasks) :
          (/\ mark_complete(self) \/ taskAction(self, "complete")
           /\ tasks[self].status # "Completed"
           /\ Recurring(tasks[self])
           /\ ~StopCondition(tasks[self])
           /\ calculate_next_date(tasks[self].complete_by_date,
                                  tasks[self].recurring_pattern) # DateError)
              => /\ tasks'[self].status = "Completed"
                 /\ Len(tasks') = Len(tasks) + 1]_vars

\* The tasks generated in the series of root, and the series with its root.
Instances(root) == {i \in 1..Len(tasks) : tasks[i].recurring_parent = root}
Series(root) == Instances(root) \cup {root}

\* C26: in a series whose pattern has max_occurrences = M >= 1, whatever the
\* completions (of the same task twice, or again after it was set back to
\* Pending), at most M tasks are generated from the root and no two tasks of
\* the series have the same occurrence_count.
C26_SeriesWithinMax ==
    \A root \in 1..Len(tasks) :
        (/\ tasks[root].recurring_parent = 0
         /\ Recurring(tasks[root])
         /\ tasks[root].recurring_pattern.max_occurrences >= 1)
            => /\ Cardinality(Instances(root))
                      <= tasks[root].recurring_pattern.max_occurrences
               /\ \A i, j \in Series(root) :
                      tasks[i].occurrence_count = tasks[j].occurrence_count => i = j

\* C27: whatever the sequence of create_finance, update_finance_detail,
\* delete_transaction and undo_transaction, the number of non-deleted
\* installments of the obligation equals its no_of_installments.
C27_LiveInstallmentsMatchCount ==
    product.exists => NLive(transactions) = product.no_of_installments

\* C28: add_ledger_transaction with installments enabled and N > 1 is all or
\* nothing: it leaves the ledger as it was, or adds one parent row and its N
\* installments numbered 1..N that reference the parent.
C28_InstallmentPlanAllOrNothing ==
    [][\A transaction_type \in AllLedgerTypes, amount \in LedgerAmounts,
          transaction_date \in LedgerDates, due_date \in LedgerDueDates,
          n \in 2..MaxInstallments :
          add_ledger_transaction(transaction_type, amount, transaction_date,
                                 due_date, TRUE, n)
              => \/ ledger' = ledger
                 \/ LET parent == Len(ledger) + 1
                    IN  /\ Len(ledger') = parent + n
                        /\ ledger'[parent].parent_transaction = 0
                        /\ \A k \in 1..n :
                              /\ ledger'[parent + k].parent_transaction = parent
                              /\ ledger'[parent + k].installment_number = k]_vars

\* C29: creating a RECEIVABLE (PAYABLE) installment plan of total T with
\* create_installment_transactions raises the counterparty's total_receivable
\* (total_payable) reported by calculate_counterparty_balance by exactly T,
\* and leaves the other total as it was.
C29_PlanCountedOnce ==
    [][\A base_amount \in LedgerAmounts, n \in LedgerCounts, frequency \in Frequencies,
          start_date \in StartDates, custom_days \in CustomDays,
          transaction_type \in LedgerTypes :
          (/\ create_installment_transactions(base_amount, n, frequency, start_date,
                                              custom_days, transaction_type)
           /\ last'.outcome = "ok")
              => LET before == calculate_counterparty_balance(ledger, today)
                     after == calculate_counterparty_balance(ledger', today)
                 IN  IF transaction_type = "RECEIVABLE"
                     THEN /\ after.total_receivable = before.total_receivable + base_amount
                          /\ after.total_payable = before.total_payable
                     ELSE /\ after.total_payable = before.total_payable + base_amount
                          /\ after.total_receivable = before.total_receivable]_vars

\* The requests let through that were counted in the window ending at reset_time.
PassedIn(reset_time) ==
    {i \in 1..Len(responses) : responses[i].allowed /\ responses[i].window = reset_time}

\* C30: for one path and one client IP, at most max_requests requests are
\* let through in one window (from its start to its reset_time), whatever
\* the interleaving of the requests.
C30_AtMostMaxPerWindow ==
    \A i \in 1..Len(responses) :
        Cardinality(PassedIn(responses[i].window)) <= max_requests

====
